---- MODULE Spec2Model ----
(***************************************************************************)
(* The chat query orchestrator of the library dashboard:                   *)
(*   POST /api/chat   (src/web/src/app/api/chat/route.ts)                  *)
(* together with its collaborators findAnswer (lib/qa) and                 *)
(* translateToEnglish / translateFromEnglish (lib/translation).            *)
(* and the dashboard component that calls it and lists the books:          *)
(*   MainDashboard    (src/web/src/components/main-dashboard.tsx).         *)
(*                                                                         *)
(* Text is a sequence of atoms.  An atom is one character (" ", "a", "x",  *)
(* "y", "z") or an opaque literal chunk of a template string; string       *)
(* concatenation is \o, so trimming, splitting, joining and "contains"     *)
(* are computed on the sequence and not assumed.                           *)
(*   " "  white space          "a"  the stop-word (an article)             *)
(*   "x", "y"  English letters "z"  a letter of the foreign language "es"  *)
(* A word is a maximal run of letters: "x", "y", "xy", "zz", ...           *)
(***************************************************************************)
EXTENDS Integers, Sequences, FiniteSets, TLC

\* ------------------------------------------------------------------ bounds

\* Longest message text a client sends, in characters.
MaxMsgLen == 3

\* ------------------------------------------------------------------- text

Chars == {" ", "a", "x", "y", "z"}

Whitespace == {" "}

RECURSIVE TrimStart(_)
TrimStart(s) ==
    IF s # <<>> /\ Head(s) \in Whitespace THEN TrimStart(Tail(s)) ELSE s

RECURSIVE TrimEnd(_)
TrimEnd(s) ==
    IF s # <<>> /\ s[Len(s)] \in Whitespace
    THEN TrimEnd(SubSeq(s, 1, Len(s) - 1))
    ELSE s

\* String.prototype.trim
Trim(s) == TrimEnd(TrimStart(s))

\* Array.prototype.filter(Boolean) on an array of strings: drops the empty ones.
FilterNonEmpty(parts) == SelectSeq(parts, LAMBDA p : p # <<>>)

\* Array.prototype.join
RECURSIVE Join(_, _)
Join(parts, sep) ==
    IF parts = <<>> THEN <<>>
    ELSE IF Len(parts) = 1 THEN parts[1]
    ELSE parts[1] \o sep \o Join(Tail(parts), sep)

\* String.prototype.includes
Contains(s, sub) ==
    \E i \in 0..(Len(s) - Len(sub)) : SubSeq(s, i + 1, i + Len(sub)) = sub

\* All texts over Chars of length at most n.
RECURSIVE TextsUpTo(_)
TextsUpTo(n) ==
    IF n = 0 THEN {<<>>}
    ELSE LET shorter == TextsUpTo(n - 1)
         IN  shorter \cup {Append(s, c) : s \in shorter, c \in Chars}

\* ----------------------------------------------------------------- corpus

\* The Corpus Store: an ordered sequence of immutable Book records.  Titles
\* and headings are single literal chunks.
Books ==
    << [id |-> "b1", title |-> <<"Climate Atlas">>,
        sections |-> << [heading |-> <<"Carbon Markets">>,
                         paragraphs |-> << <<"x">>, <<"a", " ", "x">> >>] >>],
       [id |-> "b2", title |-> <<"Ocean Almanac">>,
        sections |-> << [heading |-> <<"Tides">>,
                         paragraphs |-> << <<"x">> >>],
                        [heading |-> <<"Currents">>,
                         paragraphs |-> << <<"y">> >>] >>],
       [id |-> "b3", title |-> <<"Field Notes">>,
        sections |-> << [heading |-> <<"Soil">>,
                         paragraphs |-> << <<"y", " ", "y", " ", "x">> >>] >>] >>

\* Every paragraph, by its (book, section, paragraph) position.
ParagraphRefs ==
    { [b |-> b, s |-> s, p |-> p] :
        b \in 1..Len(Books), s \in 1..2, p \in 1..2 } 

Paragraphs ==
    { r \in ParagraphRefs :
        /\ r.s <= Len(Books[r.b].sections)
        /\ r.p <= Len(Books[r.b].sections[r.s].paragraphs) }

ParagraphText(r) == Books[r.b].sections[r.s].paragraphs[r.p]

\* -------------------------------------------------------------- tokenizer

StopWords == { <<"a">> }

\* The words of a text: its maximal runs of non-white-space characters.
RECURSIVE SplitWords(_, _, _)
SplitWords(s, cur, acc) ==
    IF s = <<>> THEN (IF cur = <<>> THEN acc ELSE Append(acc, cur))
    ELSE IF Head(s) \in Whitespace
         THEN SplitWords(Tail(s), <<>>,
                         IF cur = <<>> THEN acc ELSE Append(acc, cur))
         ELSE SplitWords(Tail(s), Append(cur, Head(s)), acc)

\* normalize(text): the ordered tokens of a text, stop-words removed.
Normalize(text) ==
    SelectSeq(SplitWords(text, <<>>, <<>>), LAMBDA w : w \notin StopWords)

\* ------------------------------------------------------------------ index

\* build(corpus): per paragraph, its tokens in order (built once).
Index == [r \in Paragraphs |-> Normalize(ParagraphText(r))]

ParagraphTokens(r) == Index[r]

\* Within-paragraph frequency of a token.
TermFrequency(tok, r) ==
    Cardinality({ i \in 1..Len(ParagraphTokens(r)) : ParagraphTokens(r)[i] = tok })

\* Number of paragraphs that contain the token.
DocumentFrequency(tok) ==
    Cardinality({ r \in Paragraphs : TermFrequency(tok, r) > 0 })

\* 1000 * (ln((N + 1) / (df + 1)) + 1) for the N = 5 paragraphs of Books,
\* at index df + 1.
IdfMilliTable == <<2792, 2099, 1693, 1405, 1182, 1000>>

IdfMilli(tok) == IdfMilliTable[DocumentFrequency(tok) + 1]

\* ---------------------------------------------------------------- scoring

\* Sum over the query tokens of tf * idf, in thousandths.
RECURSIVE Weight(_, _)
Weight(qtokens, r) ==
    IF qtokens = <<>> THEN 0
    ELSE TermFrequency(Head(qtokens), r) * IdfMilli(Head(qtokens))
         + Weight(Tail(qtokens), r)

\* score(r) = Weight / sqrt(token count); scores are compared squared and
\* cross-multiplied, which is exact on the integers.
ScoreHigher(q, r1, r2) ==
    Weight(q, r1) * Weight(q, r1) * Len(ParagraphTokens(r2))
      > Weight(q, r2) * Weight(q, r2) * Len(ParagraphTokens(r1))

ScoreEqual(q, r1, r2) ==
    Weight(q, r1) * Weight(q, r1) * Len(ParagraphTokens(r2))
      = Weight(q, r2) * Weight(q, r2) * Len(ParagraphTokens(r1))

\* (book insertion order, section order, paragraph order)
PositionBefore(r1, r2) ==
    \/ r1.b < r2.b
    \/ r1.b = r2.b /\ r1.s < r2.s
    \/ r1.b = r2.b /\ r1.s = r2.s /\ r1.p < r2.p

RanksBeforeLastFirst(q, r1, r2) ==
    \/ ScoreHigher(q, r1, r2)
    \/ ScoreEqual(q, r1, r2) /\ PositionBefore(r2, r1)

\* r1 ranks before r2: higher score, ties by position.
RanksBefore(q, r1, r2) ==
    \/ ScoreHigher(q, r1, r2)
    \/ ScoreEqual(q, r1, r2) /\ PositionBefore(r1, r2)

\* The answer composer's minimum score, in thousandths.
MinScoreMilli == 700

ClearsThreshold(q, r) ==
    Weight(q, r) * Weight(q, r)
      >= MinScoreMilli * MinScoreMilli * Len(ParagraphTokens(r))

\* Paragraphs the scope admits.
InScope(scope, bookId) ==
    IF scope = "book"
    THEN { r \in Paragraphs : Books[r.b].id = bookId }
    ELSE Paragraphs

RECURSIVE Ranked(_, _)
Ranked(q, cands) ==
    IF cands = {} THEN <<>>
    ELSE LET best == CHOOSE r \in cands :
                        \A o \in cands \ {r} : RanksBefore(q, r, o)
         IN  <<best>> \o Ranked(q, cands \ {best})

\* search(queryTokens, scope): the candidates, best first; no tokens, no
\* candidates.
Search(q, scope, bookId) ==
    IF q = <<>> THEN <<>>
    ELSE Ranked(q, { r \in InScope(scope, bookId) : Weight(q, r) > 0 })

\* Most supporting excerpts surfaced with an answer.
MaxSupporting == 2

\* Sibling paragraphs of the top candidate that share a token with the
\* query, in paragraph order.
RECURSIVE Siblings(_, _, _)
Siblings(q, top, p) ==
    IF p > Len(Books[top.b].sections[top.s].paragraphs) THEN <<>>
    ELSE LET r == [b |-> top.b, s |-> top.s, p |-> p]
         IN  (IF r # top /\ Weight(q, r) > 0 THEN <<ParagraphText(r)>> ELSE <<>>)
             \o Siblings(q, top, p + 1)

Supporting(q, top) ==
    LET all == Siblings(q, top, 1)
    IN  SubSeq(all, 1, IF Len(all) < MaxSupporting THEN Len(all) ELSE MaxSupporting)

\* ------------------------------------------------------------- findAnswer

NoAnswer == [kind |-> "none"]
Thrown(what) == [kind |-> "throw", error |-> what]

\* findAnswer(question, {scope, bookId}): the composed answer of the top
\* candidate, none when nothing clears the threshold; the call fails when
\* scope is "book" and no bookId is given.  bookId is a JSON value.
FindAnswer(question, scope, bookId) ==
    IF scope = "book" /\ bookId.t # "string" THEN Thrown("InvalidScope")
    ELSE LET q      == Normalize(question)
             ranked == Search(q, scope, IF bookId.t = "string" THEN bookId.v ELSE "")
         IN  IF ranked = <<>> THEN NoAnswer
             ELSE LET top == ranked[1]
                  IN  IF ~ClearsThreshold(q, top) THEN NoAnswer
                      ELSE [kind       |-> "answer",
                            answer     |-> ParagraphText(top),
                            book       |-> [id    |-> Books[top.b].id,
                                            title |-> Books[top.b].title],
                            section    |-> Books[top.b].sections[top.s].heading,
                            supporting |-> Supporting(q, top)]

\* ------------------------------------------------------------- translator

\* detect(text): "es" when the text has a letter of that language.
Detect(text) == IF \E i \in 1..Len(text) : text[i] = "z" THEN "es" ELSE "en"

\* The dictionaries, character by character.
EnglishOf(c) == IF c = "z" THEN "x" ELSE c
ForeignOf(c) == IF c = "x" THEN "z" ELSE c

\* translateToEnglish(text) -> {text, detected}: a pass-through for English.
ToEnglish(text) ==
    [text     |-> IF Detect(text) = "en" THEN text
                  ELSE [i \in 1..Len(text) |-> EnglishOf(text[i])],
     detected |-> Detect(text)]

\* translateFromEnglish(text, targetLanguage): a no-op for "en"; otherwise
\* the text in the target language, led by that language's mark.
FromEnglish(text, lang) ==
    IF lang = "en" THEN text
    ELSE <<lang>> \o [i \in 1..Len(text) |-> ForeignOf(text[i])]

\* -------------------------------------------------------- request bodies

Undefined == [t |-> "undefined"]
Null      == [t |-> "null"]
Str(v)    == [t |-> "string", v |-> v]

MessageValues == {Undefined, Null} \cup { Str(m) : m \in TextsUpTo(MaxMsgLen) }
ScopeValues   == {Undefined, Str("book"), Str("library")}
BookIdValues  == {Undefined, Str("b1"), Str("b2"), Str("b3"), Str("b9")}
LanguageValues == {Undefined, Str("en"), Str("es")}

\* What request.json() can yield: null, or an object with these fields.
Bodies ==
    {Null} \cup
    { [t |-> "object", message |-> m, scope |-> s, bookId |-> b, targetLanguage |-> l] :
        m \in MessageValues, s \in ScopeValues,
        b \in BookIdValues, l \in LanguageValues }

\* body?.field
Field(b, name) == IF b.t = "object" THEN b[name] ELSE Undefined

\* ---------------------------------------------------- POST: its expressions

MessageUntrimmed(b) ==
    LET m == Field(b, "message")
    IN  IF m.t = "string" THEN m.v ELSE <<>>

\* const message = String(body?.message ?? '').trim();
Message(b) ==
    LET m == Field(b, "message")
    IN  Trim(IF m.t = "string" THEN m.v ELSE <<>>)

ScopeAlwaysLibrary(b) == "library"

\* const scope = body?.scope === 'book' ? 'book' : 'library';
Scope(b) ==
    LET s == Field(b, "scope")
    IN  IF s.t = "string" /\ s.v = "book" THEN "book" ELSE "library"

\* const bookId = typeof body?.bookId === 'string' ? body.bookId : undefined;
BookId(b) ==
    LET i == Field(b, "bookId")
    IN  IF i.t = "string" THEN i ELSE Undefined

TargetLanguageDefaultEs(b) ==
    LET l == Field(b, "targetLanguage")
    IN  IF l.t = "string" THEN l.v ELSE "es"

\* typeof body?.targetLanguage === 'string' ? body.targetLanguage : 'en'
TargetLanguage(b) ==
    LET l == Field(b, "targetLanguage")
    IN  IF l.t = "string" THEN l.v ELSE "en"

\* englishQuestion || message
Question(englishQuestion, message) ==
    IF englishQuestion # <<>> THEN englishQuestion ELSE message

FallbackAnswer ==
    <<"I could not find a precise passage in the library. Try refining your question with more context, such as a topic or chapter.">>

\* The truthiness of findAnswer's result: an answer object, or nothing.
Truthy(answer) == answer.kind = "answer"

FoundBySupporting(answer) ==
    answer.kind = "answer" /\ Len(answer.supporting) # 0

\* found: Boolean(answer)
Found(answer) == Truthy(answer)

BaseAnswerNoFallback(answer) ==
    IF Truthy(answer)
    THEN Join(FilterNonEmpty(<<
                answer.answer,
                <<"Source: ">> \o answer.book.title \o <<" -- ">> \o answer.section >>),
              <<"\n\n">>)
    ELSE <<>>

\* const baseAnswer = answer ? [...].filter(Boolean).join(sep) : fallbackAnswer;
\* (the em dash of the source line is written " -- ")
BaseAnswer(answer) ==
    IF Truthy(answer)
    THEN Join(FilterNonEmpty(<<
                answer.answer,
                <<"Source: ">> \o answer.book.title \o <<" -- ">> \o answer.section,
                IF Len(answer.supporting) # 0
                THEN <<"Related context: ">> \o Join(answer.supporting, <<" / ">>)
                ELSE <<>> >>),
              <<"\n\n">>)
    ELSE FallbackAnswer

\* source: answer ? {id, title, section} : null
Source(answer) ==
    IF Truthy(answer)
    THEN [t       |-> "object",
          id      |-> answer.book.id,
          title   |-> answer.book.title,
          section |-> answer.section]
    ELSE Null

\* ------------------------------------------------------------------ state

\* Requests that can be in flight together.
Slots == {1, 2}

VARIABLES
    pc,        \* per request: where its POST invocation stands
    body,      \* per request: the JSON body it carries
    loc,       \* per request: the local constants of its POST invocation
    call,      \* per request: the translator promise it awaits
    outcomes,  \* per request: how its translator calls settled, in order
    trace,     \* per request: the collaborators it invoked, in order
    resp       \* per request: the HTTP response it produced

\* The dashboard component (src/web/src/components/main-dashboard.tsx): its
\* useState cells, and what it has in flight.
VARIABLES
    searchTerm,         \* the text of the search box
    selectedTags,       \* the toggled tags, in toggle order
    languageFilter,     \* "all" or a language code
    activeBook,         \* id of the selected book, or NoBook
    activeBookDetail,   \* id of the book whose detail is displayed, or NoBook
    bookDetailLoading,
    bookDetailError,    \* NoError or the message
    detailFetches,      \* per book id: GET /api/books/<id> requests in flight
    effectsDue,         \* which effects the last commit scheduled
    chatMessages,
    chatInput,
    chatLoading,
    chatScope,
    targetLanguage,     \* the answer language chosen in the header
    chatRequests,       \* POST /api/chat requests in flight (their bodies)
    lastHandler         \* the dashboard handler that ran last

routeVars == <<pc, body, loc, call, outcomes, trace, resp>>

selectionVars ==
    <<searchTerm, selectedTags, languageFilter, activeBook, activeBookDetail,
      bookDetailLoading, bookDetailError, detailFetches, effectsDue>>

chatVars ==
    <<chatMessages, chatInput, chatLoading, chatScope, targetLanguage,
      chatRequests, lastHandler>>

dashboardVars == <<selectionVars, chatVars>>

vars == <<routeVars, dashboardVars>>

\* ------------------------------------------------- dashboard: its props

NoBook == "none"
NoError == "none"

\* props.books: the summaries getBookSummaries() gives the page.
Summaries ==
    << [id |-> "b1", title |-> <<"X", "y">>, author |-> <<"q">>,
        description |-> <<"x", " ", "y">>, language |-> "en",
        tags |-> <<"t1", "t2">>],
       [id |-> "b2", title |-> <<"y">>, author |-> <<"q">>,
        description |-> <<>>, language |-> "es", tags |-> <<"t1">>],
       [id |-> "b3", title |-> <<"x">>, author |-> <<"r">>,
        description |-> <<"r", " ", "x">>, language |-> "en", tags |-> <<>>] >>

\* props.tags
Tags == {"t1", "t2"}

\* useState initial values, and both effects scheduled by the mount.
DashboardInit ==
    /\ searchTerm        = <<>>
    /\ selectedTags      = <<>>
    /\ languageFilter    = "all"
    /\ activeBook        = (IF Len(Summaries) # 0 THEN Summaries[1].id ELSE NoBook)
    /\ activeBookDetail  = NoBook
    /\ bookDetailLoading = FALSE
    /\ bookDetailError   = NoError
    /\ detailFetches     = [i \in {Summaries[k].id : k \in 1..Len(Summaries)} |-> 0]
    /\ effectsDue        = [detail |-> TRUE, selection |-> TRUE]
    /\ chatMessages      = <<>>
    /\ chatInput         = <<>>
    /\ chatLoading       = FALSE
    /\ chatScope         = "book"
    /\ targetLanguage    = "en"
    /\ chatRequests      = <<>>
    /\ lastHandler       = "none"

NoLocals ==
    [message |-> <<>>, scope |-> "", bookId |-> Undefined, targetLanguage |-> "",
     englishQuestion |-> <<>>, detected |-> "", answer |-> NoAnswer,
     baseAnswer |-> <<>>]

NoCall ==
    [fn |-> "none", status |-> "none", arg |-> <<>>, lang |-> "",
     text |-> <<>>, detected |-> ""]

NoResponse == [status |-> 0]

Init ==
    /\ pc       = [r \in Slots |-> "idle"]
    /\ body     = [r \in Slots |-> Null]
    /\ loc      = [r \in Slots |-> NoLocals]
    /\ call     = [r \in Slots |-> NoCall]
    /\ outcomes = [r \in Slots |-> <<>>]
    /\ trace    = [r \in Slots |-> <<>>]
    /\ resp     = [r \in Slots |-> NoResponse]
    /\ DashboardInit

AwaitedShared(r) == call[1]

\* The promise request r awaits is the one its own invocation created.
Awaited(r) == call[r]

\* A request arrives with a body of B; POST starts and awaits request.json().
Receive(r, B) ==
    /\ pc[r] = "idle"
    /\ \E b \in B : body' = [body EXCEPT ![r] = b]
    /\ pc'       = [pc EXCEPT ![r] = "json"]
    /\ loc'      = [loc EXCEPT ![r] = NoLocals]
    /\ call'     = [call EXCEPT ![r] = NoCall]
    /\ outcomes' = [outcomes EXCEPT ![r] = <<>>]
    /\ trace'    = [trace EXCEPT ![r] = <<>>]
    /\ resp'     = [resp EXCEPT ![r] = NoResponse]

\* POST, from the body to the first translator call, or to the 400.
Validate(r) ==
    /\ pc[r] = "json"
    /\ LET l == [NoLocals EXCEPT !.message        = Message(body[r]),
                                 !.scope          = Scope(body[r]),
                                 !.bookId         = BookId(body[r]),
                                 !.targetLanguage = TargetLanguage(body[r])]
       IN  /\ loc' = [loc EXCEPT ![r] = l]
           /\ IF l.message = <<>>
              THEN /\ resp' = [resp EXCEPT ![r] =
                                 [status |-> 400,
                                  json   |-> [error |-> "Message must not be empty."]]]
                   /\ pc' = [pc EXCEPT ![r] = "done"]
                   /\ UNCHANGED <<call, trace>>
              ELSE /\ call' = [call EXCEPT ![r] =
                                 [NoCall EXCEPT !.fn = "translateToEnglish",
                                                !.status = "pending",
                                                !.arg = l.message]]
                   /\ trace' = [trace EXCEPT ![r] =
                                  Append(@, [fn |-> "translateToEnglish",
                                             arg |-> l.message])]
                   /\ pc' = [pc EXCEPT ![r] = "toEnglish"]
                   /\ UNCHANGED resp
    /\ UNCHANGED <<body, outcomes>>

\* The English no-op of translateFromEnglish needs no translation step.
CanFail(c) == ~(c.fn = "translateFromEnglish" /\ c.lang = "en")

\* The translator settles r's pending call with its result ...
TranslatorResolve(r) ==
    /\ call[r].status = "pending"
    /\ \/ /\ call[r].fn = "translateToEnglish"
          /\ call' = [call EXCEPT ![r].status   = "resolved",
                                  ![r].text     = ToEnglish(call[r].arg).text,
                                  ![r].detected = ToEnglish(call[r].arg).detected]
       \/ /\ call[r].fn = "translateFromEnglish"
          /\ call' = [call EXCEPT ![r].status = "resolved",
                                  ![r].text   = FromEnglish(call[r].arg, call[r].lang)]
    /\ outcomes' = [outcomes EXCEPT ![r] = Append(@, "resolved")]
    /\ UNCHANGED <<pc, body, loc, trace, resp>>

\* ... or with an empty text (nothing came back for the message) ...
TranslatorResolveEmpty(r) ==
    /\ call[r].status = "pending"
    /\ call[r].fn = "translateToEnglish"
    /\ call' = [call EXCEPT ![r].status   = "resolved",
                            ![r].text     = <<>>,
                            ![r].detected = "unknown"]
    /\ outcomes' = [outcomes EXCEPT ![r] = Append(@, "empty")]
    /\ UNCHANGED <<pc, body, loc, trace, resp>>

\* ... or the detection/translation step fails and the promise rejects ...
TranslatorReject(r) ==
    /\ call[r].status = "pending"
    /\ CanFail(call[r])
    /\ call' = [call EXCEPT ![r].status = "rejected"]
    /\ outcomes' = [outcomes EXCEPT ![r] = Append(@, "rejected")]
    /\ UNCHANGED <<pc, body, loc, trace, resp>>

\* ... or the call never returns.
TranslatorHang(r) ==
    /\ call[r].status = "pending"
    /\ CanFail(call[r])
    /\ call' = [call EXCEPT ![r].status = "hung"]
    /\ outcomes' = [outcomes EXCEPT ![r] = Append(@, "hung")]
    /\ UNCHANGED <<pc, body, loc, trace, resp>>

\* An await on a rejected promise throws; POST catches nothing, so the
\* invocation rejects and the framework answers 500.
Throw(r) ==
    /\ pc[r] \in {"toEnglish", "fromEnglish"}
    /\ Awaited(r).status = "rejected"
    /\ pc'   = [pc EXCEPT ![r] = "done"]
    /\ resp' = [resp EXCEPT ![r] = [status |-> 500, json |-> [error |-> "TranslationUnavailable"]]]
    /\ call' = [call EXCEPT ![r] = NoCall]
    /\ UNCHANGED <<body, loc, outcomes, trace>>

\* POST, from the English question to the second translator call.
Retrieve(r) ==
    /\ pc[r] = "toEnglish"
    /\ Awaited(r).status = "resolved"
    /\ \E q \in {Question(Awaited(r).text, loc[r].message)} :
       \E a \in {FindAnswer(q, loc[r].scope, loc[r].bookId)} :
       \E base \in {IF a.kind = "throw" THEN <<>> ELSE BaseAnswer(a)} :
           /\ trace' = [trace EXCEPT ![r] =
                          Append(@, [fn |-> "findAnswer", arg |-> q,
                                     scope |-> loc[r].scope,
                                     bookId |-> loc[r].bookId])
                          \o (IF a.kind = "throw" THEN <<>>
                              ELSE <<[fn |-> "translateFromEnglish",
                                      arg |-> base,
                                      lang |-> loc[r].targetLanguage]>>)]
           /\ IF a.kind = "throw"
              THEN /\ loc' = [loc EXCEPT ![r].englishQuestion = Awaited(r).text,
                                         ![r].detected = Awaited(r).detected]
                   /\ resp' = [resp EXCEPT ![r] =
                                 [status |-> 500, json |-> [error |-> a.error]]]
                   /\ call' = [call EXCEPT ![r] = NoCall]
                   /\ pc' = [pc EXCEPT ![r] = "done"]
              ELSE /\ loc' = [loc EXCEPT ![r].englishQuestion = Awaited(r).text,
                                         ![r].detected = Awaited(r).detected,
                                         ![r].answer = a,
                                         ![r].baseAnswer = base]
                   /\ call' = [call EXCEPT ![r] =
                                 [NoCall EXCEPT !.fn = "translateFromEnglish",
                                                !.status = "pending",
                                                !.arg = base,
                                                !.lang = loc[r].targetLanguage]]
                   /\ pc' = [pc EXCEPT ![r] = "fromEnglish"]
                   /\ UNCHANGED resp
    /\ UNCHANGED <<body, outcomes>>

\* POST, from the localized answer to the response.
Respond(r) ==
    /\ pc[r] = "fromEnglish"
    /\ Awaited(r).status = "resolved"
    /\ resp' = [resp EXCEPT ![r] =
                  [status |-> 200,
                   json |-> [answer           |-> Awaited(r).text,
                             baseAnswer       |-> loc[r].baseAnswer,
                             targetLanguage   |-> loc[r].targetLanguage,
                             detectedLanguage |-> loc[r].detected,
                             found            |-> Found(loc[r].answer),
                             source           |-> Source(loc[r].answer)]]]
    /\ call' = [call EXCEPT ![r] = NoCall]
    /\ pc'   = [pc EXCEPT ![r] = "done"]
    /\ UNCHANGED <<body, loc, outcomes, trace>>

\* The response is sent; nothing of the invocation is kept.
Forget(r) ==
    /\ pc[r] = "done"
    /\ pc'       = [pc EXCEPT ![r] = "idle"]
    /\ body'     = [body EXCEPT ![r] = Null]
    /\ loc'      = [loc EXCEPT ![r] = NoLocals]
    /\ call'     = [call EXCEPT ![r] = NoCall]
    /\ outcomes' = [outcomes EXCEPT ![r] = <<>>]
    /\ trace'    = [trace EXCEPT ![r] = <<>>]
    /\ resp'     = [resp EXCEPT ![r] = NoResponse]

\* The invocation of request r can run: its body has arrived, or the promise
\* it awaits has settled.
Ready(r) ==
    \/ pc[r] = "json"
    \/ /\ pc[r] \in {"toEnglish", "fromEnglish"}
       /\ Awaited(r).status \in {"resolved", "rejected"}

\* The steps of request r's own POST invocation.
HandlerStep(r) ==
    /\ Ready(r)
    /\ (Validate(r) \/ Throw(r) \/ Retrieve(r) \/ Respond(r))
    /\ UNCHANGED dashboardVars

\* The translator's answers to request r's calls.
TranslatorStep(r) ==
    /\ \/ TranslatorResolve(r)
       \/ TranslatorResolveEmpty(r)
       \/ TranslatorReject(r)
       \/ TranslatorHang(r)
    /\ UNCHANGED dashboardVars

\* One request at a time, every body.
Next ==
    \/ Receive(1, Bodies) /\ UNCHANGED dashboardVars
    \/ HandlerStep(1)
    \/ TranslatorStep(1)
    \/ Forget(1) /\ UNCHANGED dashboardVars

Spec == Init /\ [][Next]_vars

\* Continuations run once their promise settles, and the translator sooner
\* or later settles a call or leaves it hanging for good.
FairSpec ==
    Init /\ [][Next]_vars /\ WF_vars(HandlerStep(1)) /\ WF_vars(TranslatorStep(1))

\* Representative bodies for requests that run together.
ConcBodies ==
    { [t |-> "object", message |-> Str(<<"x">>), scope |-> Str("library"),
       bookId |-> Undefined, targetLanguage |-> Str("es")],
      [t |-> "object", message |-> Str(<<"z">>), scope |-> Undefined,
       bookId |-> Undefined, targetLanguage |-> Undefined],
      [t |-> "object", message |-> Str(<<"x", " ", "y">>), scope |-> Str("book"),
       bookId |-> Str("b2"), targetLanguage |-> Str("en")],
      [t |-> "object", message |-> Str(<<"a", " ">>), scope |-> Str("library"),
       bookId |-> Str("b1"), targetLanguage |-> Str("es")],
      [t |-> "object", message |-> Str(<<"y">>), scope |-> Str("book"),
       bookId |-> Undefined, targetLanguage |-> Str("en")],
      [t |-> "object", message |-> Str(<<" ">>), scope |-> Str("library"),
       bookId |-> Undefined, targetLanguage |-> Str("en")] }

\* Two requests interleaved at their await points.
NextConc ==
    \E r \in Slots :
        \/ Receive(r, ConcBodies) /\ UNCHANGED dashboardVars
        \/ HandlerStep(r)
        \/ TranslatorStep(r)
        \/ Forget(r) /\ UNCHANGED dashboardVars

ConcSpec == Init /\ [][NextConc]_vars

\* ------------------------------------------- dashboard: book selection

\* Detail requests the model lets be in flight together.
MaxDetailFetches == 2

\* String.prototype.toLowerCase
LowerOf(c) == IF c = "X" THEN "x" ELSE c
ToLowerCase(text) == [i \in 1..Len(text) |-> LowerOf(text[i])]

Includes(array, x) == \E i \in 1..Len(array) : array[i] = x

\* The predicate of books.filter(...) in the filteredBooks memo.
MatchesFilters(book, term, language, tags) ==
    LET query == ToLowerCase(Trim(term))
        matchesQuery ==
            \/ query = <<>>
            \/ Contains(ToLowerCase(book.title), query)
            \/ Contains(ToLowerCase(book.author), query)
            \/ Contains(ToLowerCase(book.description), query)
        matchesLanguage == language = "all" \/ book.language = language
        matchesTags ==
            \/ Len(tags) = 0
            \/ \A i \in 1..Len(tags) : Includes(book.tags, tags[i])
    IN  matchesQuery /\ matchesLanguage /\ matchesTags

\* const filteredBooks = useMemo(...)
FilteredBooks ==
    SelectSeq(Summaries,
              LAMBDA book : MatchesFilters(book, searchTerm, languageFilter, selectedTags))

FilteredIds == { FilteredBooks[i].id : i \in 1..Len(FilteredBooks) }

SelectionEffectKeepsStale(filtered, active, detail) ==
    IF Len(filtered) = 0
    THEN [activeBook |-> active, activeBookDetail |-> detail]
    ELSE IF active # NoBook /\ ~(\E i \in 1..Len(filtered) : filtered[i].id = active)
    THEN [activeBook |-> filtered[1].id, activeBookDetail |-> detail]
    ELSE [activeBook |-> active, activeBookDetail |-> detail]

\* The effect on [filteredBooks, activeBook]: what it leaves in activeBook and
\* activeBookDetail.
SelectionEffect(filtered, active, detail) ==
    IF Len(filtered) = 0
    THEN [activeBook |-> NoBook, activeBookDetail |-> NoBook]
    ELSE IF active # NoBook /\ ~(\E i \in 1..Len(filtered) : filtered[i].id = active)
    THEN [activeBook |-> filtered[1].id, activeBookDetail |-> detail]
    ELSE [activeBook |-> active, activeBookDetail |-> detail]

PendingDetailFetches ==
    LET ids == DOMAIN detailFetches
        RECURSIVE Sum(_)
        Sum(S) == IF S = {} THEN 0
                  ELSE LET i == CHOOSE i \in S : TRUE
                       IN  detailFetches[i] + Sum(S \ {i})
    IN  Sum(ids)

\* React flushes the effects of a commit before it handles the next event.
CanHandleEvent ==
    /\ ~effectsDue.detail
    /\ ~effectsDue.selection
    /\ PendingDetailFetches < MaxDetailFetches

SearchTerms == { <<>>, <<" ">>, <<"X">>, <<"y", " ">>, <<"r">>, <<"k">> }
LanguageFilters == {"all", "en", "es", "fr"}

\* onChange of the search box: setSearchTerm(value); the same value renders
\* nothing anew.
SetSearchTerm(term) ==
    /\ CanHandleEvent
    /\ term # searchTerm
    /\ searchTerm' = term
    /\ effectsDue' = [detail |-> FALSE, selection |-> TRUE]
    /\ UNCHANGED <<selectedTags, languageFilter, activeBook, activeBookDetail,
                   bookDetailLoading, bookDetailError, detailFetches>>

\* onChange of the language select: setLanguageFilter(value).
SetLanguageFilter(language) ==
    /\ CanHandleEvent
    /\ language # languageFilter
    /\ languageFilter' = language
    /\ effectsDue' = [detail |-> FALSE, selection |-> TRUE]
    /\ UNCHANGED <<searchTerm, selectedTags, activeBook, activeBookDetail,
                   bookDetailLoading, bookDetailError, detailFetches>>

\* handleTagToggle(tag): always a new array.
HandleTagToggle(tag) ==
    /\ CanHandleEvent
    /\ selectedTags' = IF Includes(selectedTags, tag)
                       THEN SelectSeq(selectedTags, LAMBDA item : item # tag)
                       ELSE Append(selectedTags, tag)
    /\ effectsDue' = [detail |-> FALSE, selection |-> TRUE]
    /\ UNCHANGED <<searchTerm, languageFilter, activeBook, activeBookDetail,
                   bookDetailLoading, bookDetailError, detailFetches>>

\* onClick of a listed book: setActiveBook(book).
SelectBook(id) ==
    /\ CanHandleEvent
    /\ id \in FilteredIds
    /\ id # activeBook
    /\ activeBook' = id
    /\ effectsDue' = [detail |-> TRUE, selection |-> TRUE]
    /\ UNCHANGED <<searchTerm, selectedTags, languageFilter, activeBookDetail,
                   bookDetailLoading, bookDetailError, detailFetches>>

\* The effects of one commit, in declaration order: the detail fetch on
\* [activeBook], then the selection repair on [filteredBooks, activeBook].
\* Both read the values of the render they belong to.
RunEffects ==
    /\ effectsDue.detail \/ effectsDue.selection
    /\ LET fetching == effectsDue.detail /\ activeBook # NoBook
           after    == IF effectsDue.selection
                       THEN SelectionEffect(FilteredBooks, activeBook, activeBookDetail)
                       ELSE [activeBook |-> activeBook,
                             activeBookDetail |-> activeBookDetail]
       IN  /\ bookDetailLoading' = (IF fetching THEN TRUE ELSE bookDetailLoading)
           /\ bookDetailError'   = (IF fetching THEN NoError ELSE bookDetailError)
           /\ detailFetches'     = (IF fetching
                                    THEN [detailFetches EXCEPT ![activeBook] = @ + 1]
                                    ELSE detailFetches)
           /\ activeBook'        = after.activeBook
           /\ activeBookDetail'  = after.activeBookDetail
           /\ effectsDue'        = [detail    |-> after.activeBook # activeBook,
                                    selection |-> after.activeBook # activeBook]
    /\ UNCHANGED <<searchTerm, selectedTags, languageFilter>>

\* GET /api/books/<id> answers with the book: .then(setActiveBookDetail),
\* .finally(setBookDetailLoading(false)).
DetailFetchSucceeds(id) ==
    /\ detailFetches[id] > 0
    /\ detailFetches' = [detailFetches EXCEPT ![id] = @ - 1]
    /\ activeBookDetail' = id
    /\ bookDetailLoading' = FALSE
    /\ UNCHANGED <<searchTerm, selectedTags, languageFilter, activeBook,
                   bookDetailError, effectsDue>>

\* The request fails or answers not-OK: .catch(setBookDetailError),
\* .finally(setBookDetailLoading(false)).
DetailFetchFails(id) ==
    /\ detailFetches[id] > 0
    /\ detailFetches' = [detailFetches EXCEPT ![id] = @ - 1]
    /\ bookDetailError' = "Unable to load book detail"
    /\ bookDetailLoading' = FALSE
    /\ UNCHANGED <<searchTerm, selectedTags, languageFilter, activeBook,
                   activeBookDetail, effectsDue>>

NextSelection ==
    \/ \E term \in SearchTerms :
          SetSearchTerm(term) /\ UNCHANGED <<routeVars, chatVars>>
    \/ \E language \in LanguageFilters :
          SetLanguageFilter(language) /\ UNCHANGED <<routeVars, chatVars>>
    \/ \E tag \in Tags :
          HandleTagToggle(tag) /\ UNCHANGED <<routeVars, chatVars>>
    \/ \E id \in DOMAIN detailFetches :
          SelectBook(id) /\ UNCHANGED <<routeVars, chatVars>>
    \/ RunEffects /\ UNCHANGED <<routeVars, chatVars>>
    \/ \E id \in DOMAIN detailFetches :
          DetailFetchSucceeds(id) /\ UNCHANGED <<routeVars, chatVars>>
    \/ \E id \in DOMAIN detailFetches :
          DetailFetchFails(id) /\ UNCHANGED <<routeVars, chatVars>>

\* The dashboard's book list and detail pane.
SelectionSpec == Init /\ [][NextSelection]_vars

\* ------------------------------------------------- dashboard: the chat

\* Accepted submits the model follows.
MaxSubmits == 2

ChatInputs == { <<>>, <<" ">>, <<"a">>, <<" ", "x", " ">> }
ChatScopes == {"book", "library"}
TargetLanguages == {"en", "es"}

\* payload.answer of a 200 response.
Answers == { <<"a">>, <<"es", "a">> }

\* How a POST /api/chat request of the dashboard ends.
ChatOutcomes == {"ok", "notOk", "networkError", "badJson"}

UserMessage(text) == [role |-> "user", text |-> text]
AssistantMessage(text) == [role |-> "assistant", text |-> text]

SubmitAcceptedWhileLoading(input, loading) == Trim(input) # <<>>

\* The negation of handleSubmit's early return: !trimmed || chatLoading.
SubmitAccepted(input, loading) == Trim(input) # <<>> /\ ~loading

\* The text of the assistant message a settled request leaves: payload.answer,
\* or error.message in the catch block.
ReplyText(outcome, answer) ==
    CASE outcome = "ok"           -> answer
      [] outcome = "notOk"        -> <<"Chat service unavailable">>
      [] outcome = "networkError" -> <<"Failed to fetch">>
      [] outcome = "badJson"      -> <<"Unexpected end of JSON input">>

AfterSettleSilentError(messages, outcome, answer) ==
    IF outcome = "ok"
    THEN [chatMessages |-> Append(messages, AssistantMessage(answer)),
          chatLoading  |-> FALSE]
    ELSE [chatMessages |-> messages, chatLoading |-> FALSE]

\* What the try / catch / finally of handleSubmit leaves once the request has
\* settled: one assistant message in either block, then setChatLoading(false).
AfterSettle(messages, outcome, answer) ==
    [chatMessages |-> Append(messages, AssistantMessage(ReplyText(outcome, answer))),
     chatLoading  |-> FALSE]

\* onChange of the textarea: setChatInput(value).
SetChatInput(text) ==
    /\ text # chatInput
    /\ chatInput' = text
    /\ lastHandler' = "setChatInput"
    /\ UNCHANGED <<chatMessages, chatLoading, chatScope, targetLanguage, chatRequests>>

\* onClick of a scope button: setChatScope(value).
SetChatScope(scope) ==
    /\ scope # chatScope
    /\ chatScope' = scope
    /\ lastHandler' = "setChatScope"
    /\ UNCHANGED <<chatMessages, chatInput, chatLoading, targetLanguage, chatRequests>>

\* onChange of the language select: setTargetLanguage(value).
SetTargetLanguage(language) ==
    /\ language # targetLanguage
    /\ targetLanguage' = language
    /\ lastHandler' = "setTargetLanguage"
    /\ UNCHANGED <<chatMessages, chatInput, chatLoading, chatScope, chatRequests>>

\* handleSubmit up to its await: the early return, or the user message, the
\* cleared input, the loading flag and the request.
HandleSubmit ==
    /\ Len(chatMessages) < 2 * MaxSubmits
    /\ lastHandler' = "handleSubmit"
    /\ LET trimmed == Trim(chatInput)
       IN  IF SubmitAccepted(chatInput, chatLoading)
           THEN /\ chatMessages' = Append(chatMessages, UserMessage(trimmed))
                /\ chatInput' = <<>>
                /\ chatLoading' = TRUE
                /\ chatRequests' =
                       Append(chatRequests,
                              [message        |-> trimmed,
                               bookId         |-> (IF activeBook = NoBook
                                                   THEN Undefined
                                                   ELSE Str(activeBook)),
                               scope          |-> chatScope,
                               targetLanguage |-> targetLanguage])
           ELSE UNCHANGED <<chatMessages, chatInput, chatLoading, chatRequests>>
    /\ UNCHANGED <<chatScope, targetLanguage>>

\* handleSubmit after its await: the oldest request in flight settles.
ChatSettle(outcome, answer) ==
    /\ chatRequests # <<>>
    /\ chatRequests' = Tail(chatRequests)
    /\ LET after == AfterSettle(chatMessages, outcome, answer)
       IN  /\ chatMessages' = after.chatMessages
           /\ chatLoading'  = after.chatLoading
    /\ UNCHANGED <<chatInput, chatScope, targetLanguage, lastHandler>>

ChatSettles ==
    /\ \E outcome \in ChatOutcomes : \E answer \in Answers : ChatSettle(outcome, answer)
    /\ UNCHANGED <<routeVars, selectionVars>>

NextChat ==
    \/ \E text \in ChatInputs :
          SetChatInput(text) /\ UNCHANGED <<routeVars, selectionVars>>
    \/ \E scope \in ChatScopes :
          SetChatScope(scope) /\ UNCHANGED <<routeVars, selectionVars>>
    \/ \E language \in TargetLanguages :
          SetTargetLanguage(language) /\ UNCHANGED <<routeVars, selectionVars>>
    \/ HandleSubmit /\ UNCHANGED <<routeVars, selectionVars>>
    \/ ChatSettles

\* The dashboard's chat panel; every request it sends settles in the end.
ChatSpec == Init /\ [][NextChat]_vars /\ WF_vars(ChatSettles)

\* ================================================================ claims

\* What the client sent as message, before any coercion.
RawText(b) ==
    IF Field(b, "message").t = "string" THEN Field(b, "message").v ELSE <<>>

Blank(text) == \A i \in 1..Len(text) : text[i] \in Whitespace

Invoked(r, fn) == \E i \in 1..Len(trace[r]) : trace[r][i].fn = fn

Answered(r) == pc[r] = "done" /\ resp[r].status = 200

\* Request r asks for book scope and names no book.
BookScopeWithoutBook(r) ==
    /\ pc[r] # "idle"
    /\ Field(body[r], "scope") = Str("book")
    /\ Field(body[r], "bookId").t # "string"

\* C1: a request with scope "book" and no bookId is rejected as a caller
\* error before retrieval: findAnswer is never invoked for it, and it is
\* never answered like a library query.
C1_InvalidScopeRejectedBeforeRetrieval ==
    \A r \in Slots :
        BookScopeWithoutBook(r) =>
            /\ ~Invoked(r, "findAnswer")
            /\ pc[r] = "done" => resp[r].status = 400

\* C2: a request whose message is empty after trimming (or missing) gets the
\* 400 and invokes no collaborator; every message handed to the core is
\* non-empty and has no white space at either end.
C2_EmptyMessageRejected ==
    \A r \in Slots :
        /\ (pc[r] \notin {"idle", "json"} /\ Blank(RawText(body[r]))) =>
              /\ pc[r] = "done"
              /\ resp[r].status = 400
              /\ trace[r] = <<>>
        /\ \A i \in 1..Len(trace[r]) :
              trace[r][i].fn = "translateToEnglish" =>
                  /\ trace[r][i].arg # <<>>
                  /\ trace[r][i].arg[1] \notin Whitespace
                  /\ trace[r][i].arg[Len(trace[r][i].arg)] \notin Whitespace
                  /\ Contains(RawText(body[r]), trace[r][i].arg)

\* A message of white space only was rejected with nothing invoked.
C2_Witness ==
    \E r \in Slots :
        /\ pc[r] = "done"
        /\ resp[r].status = 400
        /\ RawText(body[r]) = <<" ", " ">>
        /\ trace[r] = <<>>

\* C3: in every successful response found is false exactly when source is
\* null; a response that found nothing carries the fallback message; one that
\* found an answer cites the id, title and section of the answer's book, a
\* paragraph of that section, and holds the paragraph's text verbatim.
C3_FoundSourceBaseAnswerAgree ==
    \A r \in Slots :
        Answered(r) =>
            LET j == resp[r].json
            IN  /\ (j.found = FALSE) <=> (j.source = Null)
                /\ j.found \in BOOLEAN
                /\ ~j.found => j.baseAnswer = FallbackAnswer
                /\ j.found =>
                      /\ loc[r].answer.kind = "answer"
                      /\ j.source.id = loc[r].answer.book.id
                      /\ j.source.title = loc[r].answer.book.title
                      /\ j.source.section = loc[r].answer.section
                      /\ Contains(j.baseAnswer, loc[r].answer.answer)
                      /\ \E p \in Paragraphs :
                            /\ Books[p.b].id = j.source.id
                            /\ Books[p.b].title = j.source.title
                            /\ Books[p.b].sections[p.s].heading = j.source.section
                            /\ Contains(j.baseAnswer, ParagraphText(p))
                /\ (loc[r].answer.kind = "answer") => j.found

\* An answer without supporting excerpts was found and cited.
C3_Witness ==
    \E r \in Slots :
        /\ Answered(r)
        /\ resp[r].json.found
        /\ resp[r].json.source.id = "b3"
        /\ loc[r].answer.supporting = <<>>

\* C4: a failed detection/translation step never fails the query: the
\* response is a normal one, reports the requested target language, and its
\* answer is the untranslated baseAnswer.
C4_TranslationFailureNotFatal ==
    \A r \in Slots :
        (pc[r] = "done" /\ \E i \in 1..Len(outcomes[r]) : outcomes[r][i] = "rejected") =>
            /\ resp[r].status = 200
            /\ resp[r].json.targetLanguage = TargetLanguage(body[r])
            /\ resp[r].json.answer = resp[r].json.baseAnswer

\* Request r passed validation and has not been answered yet.
Accepted(r) == pc[r] \in {"toEnglish", "fromEnglish"}

\* C5: every accepted request eventually produces a response, even when a
\* translation call never returns (each call is bounded by a timeout that
\* falls back to the untranslated text).
C5_AcceptedRequestEventuallyAnswered ==
    \A r \in {1} : Accepted(r) ~> (pc[r] = "done")

\* Request r names a book and asks for book scope.
BookScoped(r) ==
    /\ Field(body[r], "scope") = Str("book")
    /\ Field(body[r], "bookId").t = "string"

BookIds == { Books[i].id : i \in 1..Len(Books) }

\* C6: with scope "book" and a bookId, a response that found an answer cites
\* the requested book, and a bookId that matches no book finds nothing.
C6_BookScopeCitesOnlyThatBook ==
    \A r \in Slots :
        (Answered(r) /\ BookScoped(r)) =>
            /\ resp[r].json.found =>
                  resp[r].json.source.id = Field(body[r], "bookId").v
            /\ Field(body[r], "bookId").v \notin BookIds => ~resp[r].json.found

\* Book b2 was asked about "x", which b1 holds first, and b2 was cited.
C6_Witness ==
    \E r \in Slots :
        /\ Answered(r)
        /\ BookScoped(r)
        /\ Field(body[r], "bookId").v = "b2"
        /\ RawText(body[r]) = <<"x">>
        /\ resp[r].json.found
        /\ resp[r].json.source.id = "b2"

\* C7: translating to "en" changes nothing: a settled translateFromEnglish
\* call for "en" returns its argument, every response whose targetLanguage is
\* "en" has answer = baseAnswer, and a request without a string
\* targetLanguage is answered in "en".
C7_EnglishTargetIsIdentity ==
    \A r \in Slots :
        /\ (call[r].fn = "translateFromEnglish" /\ call[r].lang = "en"
              /\ call[r].status = "resolved") => call[r].text = call[r].arg
        /\ Answered(r) =>
              /\ resp[r].json.targetLanguage = "en" =>
                    resp[r].json.answer = resp[r].json.baseAnswer
              /\ Field(body[r], "targetLanguage").t # "string" =>
                    /\ resp[r].json.targetLanguage = "en"
                    /\ resp[r].json.answer = resp[r].json.baseAnswer

\* A request that names no target language was answered with a found answer.
C7_Witness ==
    \E r \in Slots :
        /\ Answered(r)
        /\ Field(body[r], "targetLanguage") = Undefined
        /\ resp[r].json.found
        /\ resp[r].json.answer = resp[r].json.baseAnswer

\* The response POST gives body b when it runs alone and its translator
\* calls settle as outs says.
AloneResponse(b, outs) ==
    IF Blank(RawText(b))
    THEN [status |-> 400, json |-> [error |-> "Message must not be empty."]]
    ELSE IF outs[1] = "rejected"
    THEN [status |-> 500, json |-> [error |-> "TranslationUnavailable"]]
    ELSE LET msg == Message(b)
             t   == IF outs[1] = "empty"
                    THEN [text |-> <<>>, detected |-> "unknown"]
                    ELSE ToEnglish(msg)
             a   == FindAnswer(Question(t.text, msg), Scope(b), BookId(b))
         IN  IF a.kind = "throw"
             THEN [status |-> 500, json |-> [error |-> a.error]]
             ELSE IF outs[2] = "rejected"
             THEN [status |-> 500, json |-> [error |-> "TranslationUnavailable"]]
             ELSE [status |-> 200,
                   json |-> [answer           |-> FromEnglish(BaseAnswer(a), TargetLanguage(b)),
                             baseAnswer       |-> BaseAnswer(a),
                             targetLanguage   |-> TargetLanguage(b),
                             detectedLanguage |-> t.detected,
                             found            |-> Found(a),
                             source           |-> Source(a)]]

\* C8: each query is an independent, stateless unit of work: whatever the
\* interleaving, a request's response is the one it gets running alone; a
\* request whose own call has settled (or that awaits none) can always take
\* its next step, whatever the other request waits for; and an idle slot
\* holds nothing of an earlier request.
C8_QueriesAreIndependent ==
    \A r \in Slots :
        /\ pc[r] = "done" => resp[r] = AloneResponse(body[r], outcomes[r])
        /\ (Accepted(r) /\ call[r].status \in {"resolved", "rejected"}) => Ready(r)
        /\ pc[r] = "json" => Ready(r)
        /\ pc[r] = "idle" =>
              /\ loc[r] = NoLocals /\ call[r] = NoCall /\ resp[r] = NoResponse
              /\ trace[r] = <<>> /\ outcomes[r] = <<>>

\* One request was answered while the other's translation call hangs.
C8_Witness ==
    \E r1, r2 \in Slots :
        /\ r1 # r2
        /\ Answered(r1)
        /\ resp[r1].json.found
        /\ Accepted(r2)
        /\ call[r2].status = "hung"

\* (book insertion order, section order, paragraph order), spelled out.
EarlierInCorpus(p1, p2) ==
    \/ p1.b < p2.b
    \/ p1.b = p2.b /\ p1.s < p2.s
    \/ p1.b = p2.b /\ p1.s = p2.s /\ p1.p < p2.p

\* The findAnswer calls of request r that reached the search.
Searches(r) ==
    { i \in 1..Len(trace[r]) :
        /\ trace[r][i].fn = "findAnswer"
        /\ ~(trace[r][i].scope = "book" /\ trace[r][i].bookId.t # "string") }

SearchOf(e) ==
    Search(Normalize(e.arg), e.scope, IF e.bookId.t = "string" THEN e.bookId.v ELSE "")

NoTokens(text) ==
    \A i \in 1..Len(SplitWords(text, <<>>, <<>>)) :
        SplitWords(text, <<>>, <<>>)[i] \in StopWords

\* C10: a query without tokens (stop-words only) gets the empty candidate
\* sequence, not every paragraph at one score, and is answered found = false
\* with the fallback message as baseAnswer.
C10_NoTokensNoCandidates ==
    \A r \in Slots : \A i \in Searches(r) :
        NoTokens(trace[r][i].arg) =>
            /\ SearchOf(trace[r][i]) = <<>>
            /\ ~Truthy(loc[r].answer)
            /\ pc[r] = "fromEnglish" =>
                  /\ loc[r].baseAnswer = FallbackAnswer
                  /\ call[r].arg = FallbackAnswer
            /\ Answered(r) =>
                  /\ resp[r].json.found = FALSE
                  /\ resp[r].json.baseAnswer = FallbackAnswer
                  /\ resp[r].json.source = Null

\* The stop-word alone was asked of the whole library and answered.
C10_Witness ==
    \E r \in Slots :
        /\ Answered(r)
        /\ \E i \in Searches(r) : trace[r][i].arg = <<"a">>
        /\ Scope(body[r]) = "library"
        /\ resp[r].json.found = FALSE

\* C11: every accepted request takes the four steps once each and in order:
\* translate the message to English, retrieve with the requested scope,
\* compose the answer or the fallback, translate the composed text; the
\* retrieval gets the English text (the message when that text is empty), and
\* the text translated back is the baseAnswer of the response.
C11_FourStepsOnceInOrder ==
    \A r \in Slots :
        (pc[r] = "done" /\ ~Blank(RawText(body[r]))) =>
            /\ Len(trace[r]) = 3
            /\ trace[r][1].fn = "translateToEnglish"
            /\ trace[r][2].fn = "findAnswer"
            /\ trace[r][3].fn = "translateFromEnglish"
            /\ trace[r][2].scope = Scope(body[r])
            /\ trace[r][2].arg =
                  (IF loc[r].englishQuestion # <<>> THEN loc[r].englishQuestion
                   ELSE trace[r][1].arg)
            /\ resp[r].status = 200
            /\ trace[r][3].arg = resp[r].json.baseAnswer


\* A step in which handleSubmit is called although a request is in flight or
\* the input is blank.
RefusedSubmit ==
    /\ HandleSubmit
    /\ chatLoading \/ Blank(chatInput)

\* C12: a call of handleSubmit while chatLoading is true, or with input that is
\* empty once trimmed, changes nothing: no message is appended, no request is
\* sent, the input is kept. Hence at most one chat request is outstanding at
\* any time.
C12_SubmitGuardedWhileLoadingOrBlank ==
    /\ [](Len(chatRequests) <= 1)
    /\ [][RefusedSubmit =>
            UNCHANGED <<chatMessages, chatInput, chatLoading, chatRequests>>]_vars

\* handleSubmit has just been called with text typed while a request is in
\* flight, and that request is still the only one.
C12_Witness ==
    /\ lastHandler = "handleSubmit"
    /\ chatLoading
    /\ ~Blank(chatInput)
    /\ Len(chatRequests) = 1
    /\ Len(chatMessages) = 1

Alternates(messages) ==
    \A i \in 1..Len(messages) :
        messages[i].role = (IF i % 2 = 1 THEN "user" ELSE "assistant")

\* C13: every accepted submit appends exactly one user message; when its
\* request settles, however it settles, exactly one assistant message follows
\* and chatLoading returns to false. So the list always alternates user,
\* assistant, it ends with a user message exactly while a request is in flight,
\* and a loading dashboard always comes back to not loading.
C13_OneReplyPerSubmit ==
    /\ [](/\ Alternates(chatMessages)
          /\ chatLoading <=> (Len(chatMessages) % 2 = 1)
          /\ chatLoading <=> (chatRequests # <<>>))
    /\ [][/\ Len(chatRequests') > Len(chatRequests) =>
                /\ chatMessages' = Append(chatMessages, UserMessage(Trim(chatInput)))
                /\ chatLoading'
          /\ Len(chatRequests') < Len(chatRequests) =>
                /\ Len(chatMessages') = Len(chatMessages) + 1
                /\ SubSeq(chatMessages', 1, Len(chatMessages)) = chatMessages
                /\ chatMessages'[Len(chatMessages')].role = "assistant"
                /\ ~chatLoading']_vars
    /\ (chatLoading ~> ~chatLoading)

\* Two submits have been answered, one of them by the error path, and the
\* dashboard is idle again.
C13_Witness ==
    /\ Len(chatMessages) = 4
    /\ ~chatLoading
    /\ chatMessages[2].text = <<"Chat service unavailable">>
    /\ chatMessages[4].text = <<"es", "a">>
    /\ chatMessages[3].text = <<"x">>

\* Every effect of the last commit has run.
EffectsDone == ~effectsDue.detail /\ ~effectsDue.selection

\* C14: once every detail fetch has settled (and none of them failed since the
\* last one started), activeBookDetail is the detail of activeBook, or null
\* when activeBook is null; and bookDetailLoading is true whenever a fetch for
\* the current activeBook is pending. This is to hold for every order of
\* selections and responses.
C14_DetailFollowsSelection ==
    /\ (EffectsDone /\ PendingDetailFetches = 0 /\ bookDetailError = NoError) =>
            activeBookDetail = activeBook
    /\ (activeBook # NoBook /\ detailFetches[activeBook] > 0) => bookDetailLoading

\* A step that runs the selection effect.
SelectionEffectRuns == RunEffects /\ effectsDue.selection

\* C15: when the effects have run, activeBook is null or one of filteredBooks,
\* and it is null if no book matches. The effect sets activeBook to null when
\* no book matches, and replaces an active book that is filtered out by the
\* first matching book.
C15_ActiveBookAmongFiltered ==
    /\ [](EffectsDone =>
            /\ activeBook = NoBook \/ activeBook \in FilteredIds
            /\ FilteredBooks = <<>> => activeBook = NoBook)
    /\ [][SelectionEffectRuns =>
            /\ FilteredBooks = <<>> => activeBook' = NoBook
            /\ (FilteredBooks # <<>> /\ activeBook # NoBook
                    /\ activeBook \notin FilteredIds) =>
                  activeBook' = FilteredBooks[1].id]_vars

\* The search term filters the initial book out; the effects have run, the
\* first match is active and its detail has arrived.
C15_Witness ==
    /\ EffectsDone
    /\ Trim(searchTerm) # <<>>
    /\ Summaries[1].id \notin FilteredIds
    /\ Len(FilteredBooks) > 0
    /\ activeBook = FilteredBooks[1].id
    /\ activeBookDetail = activeBook
    /\ PendingDetailFetches = 0
====
